---- MODULE Spec2Model ----
(***************************************************************************)
(* Simplified Irrigation Calculator: the hydraulic calculation of          *)
(* InputForm (its useEffect), the manual cycle override, and the App's     *)
(* zone list and remote calls.                                             *)
(*                                                                         *)
(* Units.  The program computes in IEEE-754 doubles; the model computes in *)
(* integers:                                                               *)
(*   inches, in/hr, factors, dollars ... hundredths (1.5 in/hr is 150)     *)
(*   efficiency ......................... percent   (0.70 is 70)           *)
(*   pressure ........................... PSI                              *)
(*   netWeeklyInches .................... millionths of an inch            *)
(*   effective precipitation rate ....... ten-thousandths of an in/hr      *)
(* Where the double arithmetic of the program gives another integer than   *)
(* exact arithmetic (a floor, a ceil or a toFixed taken of a value that is *)
(* a whole number or a tie in exact arithmetic), the cases are listed with *)
(* the operation they belong to (PrecipTieBelow, NetAbove, WeeklyAbove,    *)
(* InchesTieBelow, RunoffBelow), for the inputs the specifications below   *)
(* draw from.                                                              *)
(*                                                                         *)
(* A text field holding a number is Empty or Num(n), or Text when its      *)
(* content does not parse; a value that is "T | null" in the program is    *)
(* Null or a record.  A result carries the set nan of its fields that are  *)
(* NaN.  formData.image is TRUE when a photo is chosen.                    *)
(***************************************************************************)
EXTENDS Integers, Sequences, FiniteSets, TLC

VARIABLES
  formData,       \* App: the form's PlantFormData
  manualCycles,   \* InputForm: the manual cycle override, Null or Num(1..10)
  liveCalc,       \* InputForm: the LiveCalculation, Null when there is none
  savedZones,     \* App state: the committed zones, in order
  editingId,      \* App state: the id of the zone being edited, or Null
  loading,        \* App state: a plan generation is in flight
  planRequest,    \* the plan generation in flight: what it was called with, or Null
  weatherLoading, \* App state: a weather estimate is in flight
  result,         \* App state: the generated plan, or Null
  error,          \* App state: the message shown, or Null
  now,            \* the clock read by Date.now()
  lastOp          \* history: the handler that ran last

vars == <<formData, manualCycles, liveCalc, savedZones, editingId, loading, planRequest,
          weatherLoading, result, error, now, lastOp>>

Null == [k |-> "null"]
Empty == [k |-> "empty"]
Num(n) == [k |-> "num", v |-> n]
\* A string parseFloat and Number turn into NaN ("abc", "undefined")
Text == [k |-> "text"]
\* What the effect leaves when NOZZLE_DATA[nozzleType] is undefined and a
\* property of it is read
TypeError == [k |-> "TypeError"]

Max(a, b) == IF a >= b THEN a ELSE b
Min(a, b) == IF a <= b THEN a ELSE b
\* Math.ceil(a / b) and Math.floor(a / b) for a >= 0, b > 0
CeilDiv(a, b) == (a + b - 1) \div b
FloorDiv(a, b) == a \div b

-----------------------------------------------------------------------------
(* Reference tables *)

NOZZLE_DATA ==
  ("Fixed Spray (Generic)" :> [rate |-> 150, optimalPsi |-> 30, efficiency |-> 70]) @@
  ("Rainbird 1800 / HE-VAN" :> [rate |-> 160, optimalPsi |-> 30, efficiency |-> 75]) @@
  ("Hunter Pro-Spray" :> [rate |-> 150, optimalPsi |-> 30, efficiency |-> 75]) @@
  ("Hunter MP Rotator (Standard)" :> [rate |-> 40, optimalPsi |-> 40, efficiency |-> 80]) @@
  ("Hunter MP Rotator (MP800 SR)" :> [rate |-> 80, optimalPsi |-> 40, efficiency |-> 80]) @@
  ("Rainbird R-VAN" :> [rate |-> 60, optimalPsi |-> 45, efficiency |-> 75]) @@
  ("Rotor (Gear Drive - PGP/5000)" :> [rate |-> 50, optimalPsi |-> 45, efficiency |-> 80]) @@
  ("Rotor (Low Angle)" :> [rate |-> 75, optimalPsi |-> 45, efficiency |-> 80]) @@
  ("Drip Line (0.9 GPH - 12in Spacing)" :> [rate |-> 80, optimalPsi |-> 30, efficiency |-> 90]) @@
  ("Drip Line (0.6 GPH - 12in Spacing)" :> [rate |-> 50, optimalPsi |-> 30, efficiency |-> 90]) @@
  ("Drip Line (0.4 GPH - 12in Spacing)" :> [rate |-> 35, optimalPsi |-> 30, efficiency |-> 90]) @@
  ("Bubbler (Flood)" :> [rate |-> 1200, optimalPsi |-> 30, efficiency |-> 85])

SOIL_RATES ==
  ("Sand" :> 200) @@ ("Loamy Sand" :> 150) @@ ("Sandy Loam" :> 80) @@
  ("Loam" :> 50) @@ ("Clay Loam" :> 25) @@ ("Silty Clay" :> 15) @@ ("Clay" :> 10)

SOIL_SOAK_TIMES ==
  ("Sand" :> 0) @@ ("Loamy Sand" :> 0) @@ ("Sandy Loam" :> 15) @@
  ("Loam" :> 30) @@ ("Clay Loam" :> 45) @@ ("Silty Clay" :> 60) @@ ("Clay" :> 60)

SLOPE_FACTORS ==
  ("0-15%" :> 100) @@ ("15-30%" :> 70) @@ ("30-45%" :> 50) @@ (">45%" :> 30)

ZONE_FACTORS ==
  ("Cool Season Turf Grass" :> 95) @@ ("Warm Season Turf Grass" :> 70) @@
  ("All Plants" :> 50) @@ ("Trees" :> 60) @@ ("Perennials" :> 50) @@ ("Drip" :> 50)

SUNLIGHT_FACTORS ==
  ("Direct Sun" :> 100) @@ ("Partial Sun" :> 90) @@ ("Shade" :> 80)

\* TABLE[key] || fallback
Lookup(table, key, fallback) ==
  IF key \in DOMAIN table /\ table[key] # 0 THEN table[key] ELSE fallback

\* soilType.includes("Sand"), over the soil keys of the form's select and the
\* unknown keys "Beach Sand" and "Gravel"
SandySoils == {"Sand", "Loamy Sand", "Sandy Loam", "Beach Sand"}
isSandy(f) == f.soilType \in SandySoils

\* zoneType.includes("Turf"), over the zone keys of the form's select and the
\* unknown keys "Artificial Turf" and "Orchard"
TurfZones == {"Cool Season Turf Grass", "Warm Season Turf Grass", "Artificial Turf"}
isTurf(f) == f.zoneType \in TurfZones

-----------------------------------------------------------------------------
(* The calculation of the InputForm effect, one operator per value *)

\* parseFloat(formData.efficiency || ''), else the nozzle's default
efficiencyOf(f) ==
  IF f.efficiency.k = "num"
    THEN f.efficiency.v
    ELSE IF NOZZLE_DATA[f.nozzleType].efficiency # 0
           THEN NOZZLE_DATA[f.nozzleType].efficiency
           ELSE 75

\* floor(sqrt(n)) for n >= 0
RECURSIVE SqrtSearch(_, _, _)
SqrtSearch(n, lo, hi) ==
  IF lo >= hi THEN lo
  ELSE LET mid == (lo + hi + 1) \div 2
       IN IF mid * mid <= n THEN SqrtSearch(n, mid, hi) ELSE SqrtSearch(n, lo, mid - 1)
ISqrt(n) == SqrtSearch(n, 0, Min(n, 46340))

\* Rates whose double lies below the decimal: half of an odd number of
\* hundredths is then below the tie and toFixed(2) rounds it down
\* (0.35 * 0.5 = 0.17499999999999999 and 0.35 * 1.5 = 0.5249999999999999).
PrecipTieBelow == {35}

\* (n / 2).toFixed(2) in hundredths, n = rate or 3 * rate
ToFixedHalf(n, rate) ==
  IF n % 2 = 1 /\ rate \notin PrecipTieBelow THEN n \div 2 + 1 ELSE n \div 2

\* PressureAdjusted with the ratio inverted, sqrt(optimalPsi / actualPsi)
PressureAdjustedInverted(rate, actualPsi, optimalPsi) ==
  IF 4 * optimalPsi <= actualPsi THEN ToFixedHalf(rate, rate)
  ELSE IF 4 * optimalPsi >= 9 * actualPsi THEN ToFixedHalf(3 * rate, rate)
  ELSE (ISqrt((4 * rate * rate * optimalPsi) \div actualPsi) + 1) \div 2

\* (rate * clamp(sqrt(actualPsi / optimalPsi), 0.5, 1.5)).toFixed(2)
PressureAdjusted(rate, actualPsi, optimalPsi) ==
  IF 4 * actualPsi <= optimalPsi THEN ToFixedHalf(rate, rate)
  ELSE IF 4 * actualPsi >= 9 * optimalPsi THEN ToFixedHalf(3 * rate, rate)
  ELSE (ISqrt((4 * rate * rate * actualPsi) \div optimalPsi) + 1) \div 2

precipRateOf(f) ==
  LET nozzle == NOZZLE_DATA[f.nozzleType]
  IN IF f.pressure.k = "num" /\ f.pressure.v > 0
       THEN PressureAdjusted(nozzle.rate, f.pressure.v, nozzle.optimalPsi)
       ELSE nozzle.rate

\* parseFloat(formData.estWeeklyEt || '0')
userEt(f) == IF f.estWeeklyEt.k = "num" THEN f.estWeeklyEt.v ELSE 0
isEstDataOf(f) == userEt(f) = 0
\* baseEt keeping an ET of 0 that was entered
baseEtZeroKept(f) == IF f.estWeeklyEt.k = "num" THEN f.estWeeklyEt.v ELSE 125

\* userEt || 1.25
baseEt(f) == IF userEt(f) # 0 THEN userEt(f) ELSE 125
plantFactor(f) == Lookup(ZONE_FACTORS, f.zoneType, 50)
sunFactor(f) == Lookup(SUNLIGHT_FACTORS, f.sunlight, 100)
rainOffset(f) == IF f.estWeeklyRain.k = "num" THEN f.estWeeklyRain.v ELSE 0

\* millionths of an inch
adjustedEt(f) == baseEt(f) * plantFactor(f) * sunFactor(f)
netWeeklyInches(f) == Max(0, adjustedEt(f) - rainOffset(f) * 10000)

\* Inputs <<baseEt, plantFactor, sunFactor, rainOffset, precipRate, efficiency>>
\* whose quotient (netWeeklyInches / effectivePr) * 60 is a whole number in
\* exact arithmetic and just above it in doubles: Math.ceil gives one more.
WeeklyAbove ==
  { <<125, 60, 90, 50, 150, 70>>, <<125, 60, 100, 0, 48, 75>>,
    <<125, 70, 80, 0, 150, 70>>, <<125, 70, 90, 0, 150, 70>>,
    <<125, 70, 100, 0, 150, 70>>, <<125, 95, 80, 0, 150, 50>>,
    <<125, 95, 80, 50, 150, 50>>, <<125, 95, 80, 50, 150, 150>>,
    <<125, 95, 100, 0, 57, 20>>, <<200, 60, 100, 50, 150, 70>>,
    <<200, 70, 90, 0, 150, 70>>, <<200, 70, 100, 0, 150, 70>>,
    <<200, 95, 100, 50, 150, 70>>, <<300, 50, 80, 50, 150, 70>>,
    <<300, 95, 90, 50, 150, 70>> }

\* precipRate * efficiency is effectivePr, in ten-thousandths of an in/hr
weeklyTotalMinutesOf(f, precipRate, efficiency) ==
  IF precipRate * efficiency > 0
    THEN CeilDiv(netWeeklyInches(f) * 3, 5 * precipRate * efficiency)
         + (IF <<baseEt(f), plantFactor(f), sunFactor(f), rainOffset(f),
                 precipRate, efficiency>> \in WeeklyAbove THEN 1 ELSE 0)
    ELSE 0

\* parseFloat(formData.mowingHeight || '3.0'); a text that does not parse gives
\* NaN, which takes the branch of 3.0 in the mowing rule (NaN < 2.0 is false)
mowingHeightOf(f) == IF f.mowingHeight.k = "num" THEN f.mowingHeight.v ELSE 300

\* Inputs <<baseEt, plantFactor, sunFactor, rainOffset>> whose netWeeklyInches is
\* one of the thresholds 0.7, 0.8, 1.4, 1.5 in exact arithmetic and just above it
\* in doubles (1.25 * 0.7 * 0.8 = 0.7000000000000001)
NetAbove ==
  { <<125, 70, 80, 0>>, <<300, 50, 80, 50>> }

\* parseFloat(formData.estWeeklyRain) is NaN, and netWeeklyInches with it
rainIsNaN(f) == f.estWeeklyRain = Text

\* netWeeklyInches > threshold (false of NaN)
netExceeds(f, threshold) ==
  /\ ~rainIsNaN(f)
  /\ \/ netWeeklyInches(f) > threshold
     \/ /\ netWeeklyInches(f) = threshold
        /\ <<baseEt(f), plantFactor(f), sunFactor(f), rainOffset(f)>> \in NetAbove

\* baseFrequency with the thresholds of sand, 0.8 and 1.5, on every soil
baseFrequencySandThresholds(f) ==
  IF isSandy(f)
    THEN IF netExceeds(f, 1500000) THEN 5
         ELSE IF netExceeds(f, 800000) THEN 4 ELSE 3
    ELSE IF netExceeds(f, 1500000) THEN 4
         ELSE IF netExceeds(f, 800000) THEN 3 ELSE 2

baseFrequency(f) ==
  IF isSandy(f)
    THEN IF netExceeds(f, 1500000) THEN 5
         ELSE IF netExceeds(f, 800000) THEN 4 ELSE 3
    ELSE IF netExceeds(f, 1400000) THEN 4
         ELSE IF netExceeds(f, 700000) THEN 3 ELSE 2

\* mowingConstraint with the 2.0" boundary on the wrong side (<= 2.0 for < 2.0)
mowingConstraintTallInclusive(f, freq) ==
  IF isTurf(f)
    THEN IF mowingHeightOf(f) <= 200
           THEN IF mowingHeightOf(f) <= 75 THEN 7
                ELSE IF mowingHeightOf(f) <= 150 THEN Max(freq, 5)
                ELSE Max(freq, 4)
           ELSE Min(freq, 4)
    ELSE freq

\* mowingConstraint with the 0.75" boundary on the wrong side (< 0.75 for <= 0.75)
mowingConstraintShortExclusive(f, freq) ==
  IF isTurf(f)
    THEN IF mowingHeightOf(f) < 200
           THEN IF mowingHeightOf(f) < 75 THEN 7
                ELSE IF mowingHeightOf(f) <= 150 THEN Max(freq, 5)
                ELSE Max(freq, 4)
           ELSE Min(freq, 4)
    ELSE freq

mowingConstraint(f, freq) ==
  IF isTurf(f)
    THEN IF mowingHeightOf(f) < 200
           THEN IF mowingHeightOf(f) <= 75 THEN 7
                ELSE IF mowingHeightOf(f) <= 150 THEN Max(freq, 5)
                ELSE Max(freq, 4)
           ELSE Min(freq, 4)
    ELSE freq

\* suggestedFrequencyOf with a day added on sand after the mowing rule and no clamp
suggestedFrequencySandBump(f) ==
  mowingConstraint(f, baseFrequency(f)) + (IF isSandy(f) THEN 1 ELSE 0)

suggestedFrequencyOf(f) == Max(1, Min(7, mowingConstraint(f, baseFrequency(f))))

\* dailyRunTimeOf rounding down
dailyRunTimeRoundedDown(weeklyTotalMinutes, suggestedFrequency) ==
  IF suggestedFrequency > 0
    THEN FloorDiv(weeklyTotalMinutes, suggestedFrequency)
    ELSE 0

dailyRunTimeOf(weeklyTotalMinutes, suggestedFrequency) ==
  IF suggestedFrequency > 0
    THEN CeilDiv(weeklyTotalMinutes, suggestedFrequency)
    ELSE 0

\* <<dailyRunTime, precipRate, efficiency>> whose product (dailyRunTime / 60) *
\* effectivePr is a tie of toFixed(2) in exact arithmetic and below it in doubles
InchesTieBelow ==
  { <<2, 150, 70>>, <<2, 150, 150>>, <<5, 600, 85>>, <<6, 150, 70>>,
    <<9, 600, 85>>, <<10, 122, 150>>, <<10, 150, 70>>, <<14, 150, 50>>,
    <<14, 150, 70>>, <<17, 120, 75>>, <<18, 150, 50>>, <<18, 150, 70>>,
    <<20, 122, 75>>, <<22, 150, 50>>, <<22, 150, 70>>, <<26, 150, 70>>,
    <<28, 225, 70>>, <<30, 122, 50>>, <<30, 150, 70>>, <<34, 60, 75>>,
    <<34, 150, 70>>, <<38, 150, 50>>, <<52, 75, 70>> }

inchesAppliedPerDayOf(dailyRunTime, precipRate, efficiency) ==
  IF dailyRunTime > 0
    THEN FloorDiv(dailyRunTime * precipRate * efficiency + 3000, 6000)
         - (IF <<dailyRunTime, precipRate, efficiency>> \in InchesTieBelow THEN 1 ELSE 0)
    ELSE 0

soilInfiltration(f) == Lookup(SOIL_RATES, f.soilType, 50)
slopeFactor(f) == Lookup(SLOPE_FACTORS, f.slope, 100)

\* <<soilInfiltration, precipRate, slopeFactor>> whose product
\* 60 * (soilInfiltration / precipRate) * slopeFactor is a whole number in exact
\* arithmetic and just below it in doubles: Math.floor gives one less
\* (60 * (0.15 / 1.5) * 1.0 = 5.999999999999999).
RunoffBelow ==
  { <<15, 20, 100>>, <<15, 75, 50>>, <<15, 75, 100>>, <<15, 150, 50>>,
    <<15, 150, 100>>, <<25, 225, 30>>, <<50, 225, 30>>, <<200, 225, 30>>,
    <<200, 1800, 30>> }

\* maxRunTimeOf without the 3-minute floor
maxRunTimeNoMinimum(f, precipRate) ==
  IF precipRate > soilInfiltration(f)
    THEN FloorDiv(60 * soilInfiltration(f) * slopeFactor(f), precipRate * 100)
         - (IF <<soilInfiltration(f), precipRate, slopeFactor(f)>> \in RunoffBelow
              THEN 1 ELSE 0)
    ELSE 60

maxRunTimeOf(f, precipRate) ==
  IF precipRate > soilInfiltration(f)
    THEN Max(3, FloorDiv(60 * soilInfiltration(f) * slopeFactor(f), precipRate * 100)
                - (IF <<soilInfiltration(f), precipRate, slopeFactor(f)>> \in RunoffBelow
                     THEN 1 ELSE 0))
    ELSE 60

\* cyclesPerDayCalc rounding down
cyclesPerDayCalcFloor(dailyRunTime, maxRunTime) == FloorDiv(dailyRunTime, maxRunTime)

cyclesPerDayCalc(dailyRunTime, maxRunTime) == CeilDiv(dailyRunTime, maxRunTime)

\* autoCycles forcing two cycles on sand only when one cycle was computed
autoCyclesSandOnlyFromOne(f, dailyRunTime, maxRunTime) ==
  IF isSandy(f) /\ cyclesPerDayCalc(dailyRunTime, maxRunTime) = 1
    THEN 2
    ELSE cyclesPerDayCalc(dailyRunTime, maxRunTime)

autoCycles(f, dailyRunTime, maxRunTime) ==
  IF isSandy(f) /\ cyclesPerDayCalc(dailyRunTime, maxRunTime) < 2
    THEN 2
    ELSE cyclesPerDayCalc(dailyRunTime, maxRunTime)

\* finalCyclesPerDay taking the override only when it is above the automatic count
finalCyclesPerDayAtLeastAuto(manual, auto) ==
  IF manual # Null THEN Max(manual.v, auto) ELSE auto

\* manualCycles !== null ? manualCycles : autoCycles
finalCyclesPerDay(manual, auto) == IF manual # Null THEN manual.v ELSE auto

minutesPerCycleOf(dailyRunTime, cycles) ==
  IF cycles > 0 THEN CeilDiv(dailyRunTime, cycles) ELSE 0

\* recommendedSoakTimeOf that gives the soak time from one cycle on
recommendedSoakTimeFromOne(f, cycles) ==
  IF cycles >= 1 THEN Lookup(SOIL_SOAK_TIMES, f.soilType, 0) ELSE 0

recommendedSoakTimeOf(f, cycles) ==
  IF cycles > 1 THEN Lookup(SOIL_SOAK_TIMES, f.soilType, 0) ELSE 0

\* RequiredPresent without the zone type
RequiredPresentNoZone(f) ==
  f.nozzleType # "" /\ f.soilType # "" /\ f.slope # ""

\* The effect's condition: the four required fields are non-empty
RequiredPresent(f) ==
  f.nozzleType # "" /\ f.soilType # "" /\ f.slope # "" /\ f.zoneType # ""

\* The fields of the result that are NaN: a NaN netWeeklyInches reaches
\* weeklyTotalMinutes when effectivePr > 0, then dailyRunTime and the automatic
\* count (NaN < 2 is false, so the sandy minimum does not apply); with an
\* override n, minutesPerCycle = Math.ceil(NaN / n)
NaNFields(f, precipRate, efficiency, manual) ==
  IF rainIsNaN(f) /\ precipRate * efficiency > 0
    THEN {"weeklyTotalMinutes", "dailyRunTime"}
           \cup (IF manual # Null THEN {"minutesPerCycle"} ELSE {"cyclesPerDay"})
    ELSE {}

\* A field of the result: 0 stands in the record where the program has NaN
Field(name, nan, value) == IF name \in nan THEN 0 ELSE value

\* The value the effect gives to setLiveCalc; nan names the fields that are NaN.
\* NaN > 0 and NaN > 1 are false: minutesPerCycle and recommendedSoakTime are 0
\* when the count is NaN, inchesAppliedPerDay is 0 when dailyRunTime is NaN.
Calc(f, manual) ==
  IF ~RequiredPresent(f) THEN Null
  ELSE IF f.nozzleType \notin DOMAIN NOZZLE_DATA THEN TypeError
  ELSE LET precipRate == precipRateOf(f)
           efficiency == efficiencyOf(f)
           nan == NaNFields(f, precipRate, efficiency, manual)
           weeklyTotalMinutes ==
             Field("weeklyTotalMinutes", nan, weeklyTotalMinutesOf(f, precipRate, efficiency))
           suggestedFrequency == suggestedFrequencyOf(f)
           dailyRunTime == dailyRunTimeOf(weeklyTotalMinutes, suggestedFrequency)
           maxRunTime == maxRunTimeOf(f, precipRate)
           cycles ==
             Field("cyclesPerDay", nan,
                   finalCyclesPerDay(manual, autoCycles(f, dailyRunTime, maxRunTime)))
       IN [k |-> "calc",
           precipRate |-> precipRate,
           weeklyTotalMinutes |-> weeklyTotalMinutes,
           suggestedFrequency |-> suggestedFrequency,
           dailyRunTime |-> dailyRunTime,
           maxRunTime |-> maxRunTime,
           recommendedSoakTime |-> recommendedSoakTimeOf(f, cycles),
           cyclesPerDay |-> cycles,
           minutesPerCycle |-> minutesPerCycleOf(dailyRunTime, cycles),
           inchesAppliedPerDay |-> inchesAppliedPerDayOf(dailyRunTime, precipRate, efficiency),
           isEstData |-> isEstDataOf(f),
           efficiency |-> efficiency,
           nan |-> nan]

-----------------------------------------------------------------------------
(* State after construction *)

INITIAL_FORM_STATE ==
  [customZoneName |-> "", zoneType |-> "", zoneAreaSqFt |-> Empty,
   mowingHeight |-> Empty, zipCode |-> "", month |-> "",
   estWeeklyEt |-> Empty, estWeeklyRain |-> Empty,
   nozzleType |-> "", pressure |-> Empty, efficiency |-> Empty,
   soilType |-> "", slope |-> "", sunlight |-> "",
   waterSource |-> "Culinary", waterPrice |-> Num(300), image |-> FALSE]

\* Model bounds: saved zones kept, and readings of the clock
MaxZones == 1
MaxClock == 1

Op(name, field, had) == [op |-> name, field |-> field, hadOverride |-> had]

\* App's useState values and InputForm's, before the first effect has run
Constructed ==
  /\ manualCycles = Null
  /\ liveCalc = Null
  /\ savedZones = <<>>
  /\ editingId = Null
  /\ loading = FALSE
  /\ planRequest = Null
  /\ weatherLoading = FALSE
  /\ result = Null
  /\ error = Null
  /\ now = 0
  /\ lastOp = Op("mount", "", FALSE)

-----------------------------------------------------------------------------
(* The calculation as a function of its inputs: the form and the override   *)
(* are drawn from the sets below, and the effect computes the result.       *)

Form(nozzle, pressure, eff, soil, slope, zone, sun, et, rain, mow) ==
  [INITIAL_FORM_STATE EXCEPT
     !.nozzleType = nozzle, !.pressure = pressure, !.efficiency = eff,
     !.soilType = soil, !.slope = slope, !.zoneType = zone, !.sunlight = sun,
     !.estWeeklyEt = et, !.estWeeklyRain = rain, !.mowingHeight = mow]

Nozzles == DOMAIN NOZZLE_DATA
Soils == DOMAIN SOIL_RATES
Slopes == DOMAIN SLOPE_FACTORS

\* Frequency policy: every soil, zone factor, sunlight, ET, rain and mowing height
FrequencyForms ==
  { Form("Fixed Spray (Generic)", Empty, Num(70), t[1], "0-15%", t[2], t[3], t[4], t[5], t[6]) :
      t \in Soils
         \X {"Cool Season Turf Grass", "Warm Season Turf Grass", "Trees", "Drip"}
         \X {"", "Direct Sun", "Partial Sun", "Shade"}
         \X {Empty, Num(0), Num(80), Num(200), Num(300)}
         \X {Empty, Num(50), Num(400)}
         \X {Empty, Num(50), Num(75), Num(76), Num(150), Num(151), Num(199), Num(200)} }

\* Runoff and cycles: every nozzle, soil and slope, pressures around the clamp
RunoffForms ==
  { Form(t[1], t[2], t[3], t[4], t[5], t[6], "", t[7], t[8], Empty) :
      t \in Nozzles
         \X {Empty, Num(0), Num(7), Num(20), Num(30), Num(60), Num(120)}
         \X {Empty, Num(0), Num(20)}
         \X Soils
         \X Slopes
         \X {"Cool Season Turf Grass", "Trees"}
         \X {Empty, Num(300)}
         \X {Empty, Num(500)} }

RunoffOverrides == {Null, Num(1), Num(10)}

InitCalc ==
  /\ \/ formData \in FrequencyForms /\ manualCycles = Null
     \/ formData \in RunoffForms /\ manualCycles \in RunoffOverrides
  /\ liveCalc = Null
  /\ savedZones = <<>>
  /\ editingId = Null
  /\ loading = FALSE
  /\ planRequest = Null
  /\ weatherLoading = FALSE
  /\ result = Null
  /\ error = Null
  /\ now = 0
  /\ lastOp = Op("mount", "", manualCycles # Null)

\* The dependency list of the effect, manualCycles apart
EffectDependencies ==
  {"nozzleType", "soilType", "slope", "zoneType", "estWeeklyEt", "estWeeklyRain",
   "pressure", "efficiency", "sunlight", "mowingHeight"}

\* Effect with zoneType missing from the dependency list
EffectWithoutZoneType ==
  liveCalc' =
    IF \/ \E d \in EffectDependencies \ {"zoneType"} : formData'[d] # formData[d]
       \/ manualCycles' # manualCycles
      THEN Calc(formData', manualCycles')
      ELSE liveCalc

\* After a render the effect runs again when one of its dependencies changed,
\* and the result on display stays as it is otherwise
Effect ==
  liveCalc' =
    IF \/ \E d \in EffectDependencies : formData'[d] # formData[d]
       \/ manualCycles' # manualCycles
      THEN Calc(formData', manualCycles')
      ELSE liveCalc

\* The amber runtime tile and the runoff note of the live panel
runoffWarning ==
  /\ liveCalc # Null /\ liveCalc # TypeError
  /\ liveCalc.minutesPerCycle > liveCalc.maxRunTime

\* The effect of InputForm on mount
Recalculate ==
  /\ lastOp.op = "mount"
  /\ liveCalc' = Calc(formData, manualCycles)
  /\ lastOp' = Op("effect", "", manualCycles # Null)
  /\ UNCHANGED <<formData, manualCycles, savedZones, editingId, loading, planRequest,
                 weatherLoading, result, error, now>>

NextCalc == Recalculate

SpecCalc == InitCalc /\ [][NextCalc]_vars

-----------------------------------------------------------------------------
(* The handlers of InputForm and App.  Each action is one handler run to    *)
(* completion followed by the effect of InputForm on the new state.         *)

Id(s) == [k |-> "id", v |-> s]

\* handleChange's update of the form: a nozzle selection also sets the efficiency
SetField(f, name, value) ==
  IF name = "nozzleType"
    THEN [f EXCEPT !.nozzleType = value,
                   !.efficiency = IF value \in DOMAIN NOZZLE_DATA
                                    THEN Num(NOZZLE_DATA[value].efficiency)
                                    ELSE f.efficiency]
    ELSE [f EXCEPT ![name] = value]

\* OverrideAfterChange clearing on a nozzle selection only
OverrideAfterChangeNozzleOnly(name, manual) ==
  IF name = "nozzleType" THEN Null ELSE manual

\* OverrideAfterChange clearing on every edit
OverrideAfterChangeAlways(name, manual) == Null

\* handleChange's setManualCycles(null) on nozzleType, soilType and slope
OverrideAfterChange(name, manual) ==
  IF name = "nozzleType" \/ name = "soilType" \/ name = "slope" THEN Null ELSE manual

\* handleChange that writes the field into the object the form was loaded from,
\* the saved zone's formData, instead of a copy
HandleChangeInPlace(inputs) ==
  \E e \in inputs :
    /\ formData[e[1]] # e[2]
    /\ formData' = SetField(formData, e[1], e[2])
    /\ manualCycles' = OverrideAfterChange(e[1], manualCycles)
    /\ savedZones' = [i \in DOMAIN savedZones |->
                        IF editingId # Null /\ savedZones[i].id = editingId.v
                          THEN [savedZones[i] EXCEPT !.formData = formData']
                          ELSE savedZones[i]]
    /\ lastOp' = Op("handleChange", e[1], manualCycles # Null)
    /\ UNCHANGED <<editingId, loading, planRequest, weatherLoading, result, error, now>>
    /\ Effect

\* An input or a select fires onChange with a value other than the current one
HandleChange(inputs) ==
  \E e \in inputs :
    /\ formData[e[1]] # e[2]
    /\ formData' = SetField(formData, e[1], e[2])
    /\ manualCycles' = OverrideAfterChange(e[1], manualCycles)
    /\ lastOp' = Op("handleChange", e[1], manualCycles # Null)
    /\ UNCHANGED <<savedZones, editingId, loading, planRequest, weatherLoading, result, error, now>>
    /\ Effect

\* The - and + buttons of the cycles control
HandleCycleChange ==
  \E increment \in {-1, 1} :
    /\ liveCalc # Null
    /\ LET current == IF manualCycles # Null THEN manualCycles.v ELSE liveCalc.cyclesPerDay
       IN manualCycles' = Num(Max(1, Min(10, current + increment)))
    /\ lastOp' = Op("handleCycleChange", IF increment = 1 THEN "+1" ELSE "-1",
                     manualCycles # Null)
    /\ UNCHANGED <<formData, savedZones, editingId, loading, planRequest, weatherLoading,
                   result, error, now>>
    /\ Effect

\* The weather button, enabled with a ZIP code and a month and no fetch in flight
HandleFetchWeather ==
  /\ formData.zipCode # "" /\ formData.month # ""
  /\ ~weatherLoading
  /\ weatherLoading' = TRUE
  /\ error' = Null
  /\ lastOp' = Op("handleFetchWeather", "", manualCycles # Null)
  /\ UNCHANGED <<formData, manualCycles, liveCalc, savedZones, editingId, loading, planRequest,
                 result, now>>

\* estimateLocationWeather resolves: both estimates are written into the form
WeatherResolved(estimates) ==
  \E data \in estimates :
    /\ weatherLoading
    /\ formData' = [formData EXCEPT !.estWeeklyEt = Num(data.estWeeklyEt),
                                    !.estWeeklyRain = Num(data.estWeeklyRain)]
    /\ weatherLoading' = FALSE
    /\ lastOp' = Op("weatherResolved", "", manualCycles # Null)
    /\ UNCHANGED <<manualCycles, savedZones, editingId, loading, planRequest, result, error, now>>
    /\ Effect

\* WeatherRejected leaving the fetch in flight
WeatherRejectedStillLoading ==
  /\ weatherLoading
  /\ weatherLoading' = TRUE
  /\ error' = [k |-> "error", v |-> "Failed to fetch weather data. You can enter values manually."]
  /\ lastOp' = Op("weatherRejected", "", manualCycles # Null)
  /\ UNCHANGED <<formData, manualCycles, liveCalc, savedZones, editingId, loading, planRequest,
                 result, now>>

\* estimateLocationWeather rejects
WeatherRejected ==
  /\ weatherLoading
  /\ weatherLoading' = FALSE
  /\ error' = [k |-> "error", v |-> "Failed to fetch weather data. You can enter values manually."]
  /\ lastOp' = Op("weatherRejected", "", manualCycles # Null)
  /\ UNCHANGED <<formData, manualCycles, liveCalc, savedZones, editingId, loading, planRequest,
                 result, now>>

\* A photo is chosen for the zone
HandleFileChange ==
  /\ ~formData.image
  /\ formData' = [formData EXCEPT !.image = TRUE]
  /\ lastOp' = Op("handleFileChange", "", manualCycles # Null)
  /\ UNCHANGED <<manualCycles, savedZones, editingId, loading, planRequest, weatherLoading,
                 result, error, now>>
  /\ Effect

\* What generateWateringPlan is called with. overtaken is history, not program
\* state: it records that the plan was cleared while the call was in flight.
PlanRequest(form, stats) == [formData |-> form, stats |-> stats, overtaken |-> FALSE]

\* The plan is cleared by handleSaveAndNext or handleEditZone: a call in flight
\* is from before the clearing
Overtaken(request) ==
  IF request = Null THEN Null ELSE [request EXCEPT !.overtaken = TRUE]

\* The Generate button, disabled while a plan is in flight: a message when the
\* zone type and the photo, or the ZIP code, are missing, else the call starts
HandleSubmit ==
  /\ ~loading
  /\ IF ~formData.image /\ formData.zoneType = ""
       THEN /\ error' = [k |-> "error", v |-> "Please select a zone type or upload a photo."]
            /\ UNCHANGED <<loading, planRequest, result>>
       ELSE IF formData.zipCode = ""
         THEN /\ error' = [k |-> "error", v |-> "Please enter a valid Zip Code."]
              /\ UNCHANGED <<loading, planRequest, result>>
         ELSE /\ loading' = TRUE
              /\ planRequest' = PlanRequest(formData, liveCalc)
              /\ error' = Null
              /\ result' = Null
  /\ lastOp' = Op("handleSubmit", "", manualCycles # Null)
  /\ UNCHANGED <<formData, manualCycles, liveCalc, savedZones, editingId,
                 weatherLoading, now>>

\* generateWateringPlan resolves with a schedule
SubmitResolved ==
  /\ loading
  /\ loading' = FALSE
  /\ planRequest' = Null
  /\ result' = [k |-> "schedule", formData |-> planRequest.formData]
  /\ lastOp' = Op("submitResolved", "", manualCycles # Null)
  /\ UNCHANGED <<formData, manualCycles, liveCalc, savedZones, editingId,
                 weatherLoading, error, now>>

\* generateWateringPlan rejects: with its own Error, or with the FileReader's
\* event, which has no message, when the photo cannot be read
SubmitRejected ==
  /\ loading
  /\ loading' = FALSE
  /\ planRequest' = Null
  /\ \E message \in {"Failed to generate plan."}
                     \cup (IF formData.image THEN {"An unexpected error occurred."} ELSE {}) :
       error' = [k |-> "error", v |-> message]
  /\ lastOp' = Op("submitRejected", "", manualCycles # Null)
  /\ UNCHANGED <<formData, manualCycles, liveCalc, savedZones, editingId,
                 weatherLoading, result, now>>

\* Selecting a saved zone of the list
HandleEditZone ==
  \E i \in DOMAIN savedZones :
    /\ formData' = savedZones[i].formData
    /\ editingId' = Id(savedZones[i].id)
    /\ result' = Null
    /\ lastOp' = Op("handleEditZone", "", manualCycles # Null)
    /\ planRequest' = Overtaken(planRequest)
    /\ UNCHANGED <<manualCycles, savedZones, loading, weatherLoading, error, now>>
    /\ Effect

ZoneName(f, fallback) == IF f.customZoneName # "" THEN f.customZoneName ELSE fallback

\* handleSaveAndNext's reset of the zone-specific fields
ResetZoneFields(f) ==
  [f EXCEPT !.customZoneName = "", !.zoneType = "", !.zoneAreaSqFt = Empty,
            !.nozzleType = "", !.efficiency = Empty, !.image = FALSE]

\* handleSaveAndNext that replaces every entry, whatever its identity
SaveAndNextEveryEntry(limit) ==
  /\ liveCalc # Null
  /\ IF editingId # Null
       THEN /\ savedZones' =
                 [i \in DOMAIN savedZones |->
                    [savedZones[i] EXCEPT
                       !.name = ZoneName(formData, @),
                       !.stats = liveCalc,
                       !.formData = formData,
                       !.timestamp = now]]
            /\ editingId' = Null
       ELSE /\ Len(savedZones) < limit
            /\ savedZones' = Append(savedZones,
                 [id |-> ToString(now),
                  name |-> ZoneName(formData, "Zone " \o ToString(Len(savedZones) + 1)),
                  stats |-> liveCalc,
                  formData |-> formData,
                  timestamp |-> now])
            /\ UNCHANGED editingId
  /\ result' = Null
  /\ formData' = ResetZoneFields(formData)
  /\ lastOp' = Op("handleSaveAndNext", IF editingId # Null THEN "update" ELSE "append",
                   manualCycles # Null)
  /\ planRequest' = Overtaken(planRequest)
  /\ UNCHANGED <<manualCycles, loading, weatherLoading, error, now>>
  /\ Effect

\* handleSaveAndNext that replaces the first entry only of the identity
SaveAndNextFirstMatch(limit) ==
  /\ liveCalc # Null
  /\ IF editingId # Null
       THEN /\ savedZones' =
                 [i \in DOMAIN savedZones |->
                    IF /\ savedZones[i].id = editingId.v
                       /\ \A j \in 1..(i - 1) : savedZones[j].id # editingId.v
                      THEN [savedZones[i] EXCEPT
                              !.name = ZoneName(formData, @),
                              !.stats = liveCalc,
                              !.formData = formData,
                              !.timestamp = now]
                      ELSE savedZones[i]]
            /\ editingId' = Null
       ELSE /\ Len(savedZones) < limit
            /\ savedZones' = Append(savedZones,
                 [id |-> ToString(now),
                  name |-> ZoneName(formData, "Zone " \o ToString(Len(savedZones) + 1)),
                  stats |-> liveCalc,
                  formData |-> formData,
                  timestamp |-> now])
            /\ UNCHANGED editingId
  /\ result' = Null
  /\ formData' = ResetZoneFields(formData)
  /\ lastOp' = Op("handleSaveAndNext", IF editingId # Null THEN "update" ELSE "append",
                   manualCycles # Null)
  /\ planRequest' = Overtaken(planRequest)
  /\ UNCHANGED <<manualCycles, loading, weatherLoading, error, now>>
  /\ Effect

\* The two Add Next Zone buttons: handleNextZone hands the published result to
\* handleSaveAndNext, which updates the zone being edited or appends a new one
SaveAndNext(limit) ==
  /\ liveCalc # Null
  /\ IF editingId # Null
       THEN /\ savedZones' =
                 [i \in DOMAIN savedZones |->
                    IF savedZones[i].id = editingId.v
                      THEN [savedZones[i] EXCEPT
                              !.name = ZoneName(formData, @),
                              !.stats = liveCalc,
                              !.formData = formData,
                              !.timestamp = now]
                      ELSE savedZones[i]]
            /\ editingId' = Null
       ELSE /\ Len(savedZones) < limit
            /\ savedZones' = Append(savedZones,
                 [id |-> ToString(now),
                  name |-> ZoneName(formData, "Zone " \o ToString(Len(savedZones) + 1)),
                  stats |-> liveCalc,
                  formData |-> formData,
                  timestamp |-> now])
            /\ UNCHANGED editingId
  /\ result' = Null
  /\ formData' = ResetZoneFields(formData)
  /\ lastOp' = Op("handleSaveAndNext", IF editingId # Null THEN "update" ELSE "append",
                   manualCycles # Null)
  /\ planRequest' = Overtaken(planRequest)
  /\ UNCHANGED <<manualCycles, loading, weatherLoading, error, now>>
  /\ Effect

HandleSaveAndNext == SaveAndNext(MaxZones)

\* Date.now() advances.  It is a millisecond reading of the system clock: two
\* handlers in a row may read the same value.
Tick ==
  /\ now < MaxClock
  /\ now' = now + 1
  /\ UNCHANGED <<formData, manualCycles, liveCalc, savedZones, editingId, loading, planRequest,
                 weatherLoading, result, error, lastOp>>

Init == formData = INITIAL_FORM_STATE /\ Constructed

-----------------------------------------------------------------------------
(* InputForm alone: the fields that clear the override, and the cycle buttons *)

FormEdits ==
  ({"nozzleType"} \X {"", "Fixed Spray (Generic)", "Hunter MP Rotator (Standard)"})
    \cup ({"soilType"} \X {"", "Sand", "Clay"})
    \cup ({"slope"} \X {"", "0-15%", ">45%"})
    \cup ({"zoneType"} \X {"", "Cool Season Turf Grass"})
    \cup ({"estWeeklyEt"} \X {Empty, Num(300)})
    \cup ({"efficiency"} \X {Num(150), Num(-20)})

NextForm == HandleChange(FormEdits) \/ HandleCycleChange

SpecForm == Init /\ [][NextForm]_vars

-----------------------------------------------------------------------------
(* InputForm with the weather fetch: the fields that keep the override *)

WeatherEdits ==
  { <<"nozzleType", "Fixed Spray (Generic)">>, <<"soilType", "Clay">>,
    <<"slope", "0-15%">>, <<"zoneType", "Cool Season Turf Grass">>,
    <<"zipCode", "84101">>, <<"month", "July">> }
    \cup ({"pressure"} \X {Empty, Num(20)})
    \cup ({"efficiency"} \X {Empty, Num(50)})
    \cup ({"sunlight"} \X {"", "Shade"})
    \cup ({"estWeeklyEt"} \X {Empty, Num(300)})
    \cup ({"estWeeklyRain"} \X {Empty, Num(50)})
    \cup ({"mowingHeight"} \X {Empty, Num(75)})

WeatherEstimates == { [estWeeklyEt |-> 200, estWeeklyRain |-> 50] }

NextWeather ==
  \/ HandleChange(WeatherEdits)
  \/ HandleCycleChange
  \/ HandleFetchWeather
  \/ WeatherResolved(WeatherEstimates)
  \/ WeatherRejected

SpecWeather == Init /\ [][NextWeather]_vars

-----------------------------------------------------------------------------
(* App with its list of saved zones *)

AppEdits ==
  { <<"nozzleType", "Fixed Spray (Generic)">>, <<"nozzleType", "Hunter MP Rotator (Standard)">>,
    <<"soilType", "Clay">>, <<"soilType", "">>, <<"slope", "0-15%">>,
    <<"zoneType", "Cool Season Turf Grass">>, <<"zoneType", "">>,
    <<"customZoneName", "Front">> }

Next ==
  \/ HandleChange(AppEdits)
  \/ HandleCycleChange
  \/ HandleSaveAndNext
  \/ HandleEditZone
  \/ Tick

Spec == Init /\ [][Next]_vars

-----------------------------------------------------------------------------
(* MasterReport: the rows and totals rendered from the saved zones.         *)
(* zoneAreaSqFt is in whole square feet, waterPrice in hundredths of a      *)
(* dollar, gallons in whole gallons, costs in millionths of a dollar.       *)

\* Zones <<weeklyTotalMinutes, precipRate, area>> whose product with 0.623 / 60
\* is a tie in exact arithmetic and below it in doubles
GallonsTieBelow == {}

\* calculateZoneGallons returns NaN: the area does not parse, or the zone was
\* saved with a NaN weeklyTotalMinutes
gallonsIsNaN(z) ==
  /\ z.formData.zoneAreaSqFt # Empty
  /\ \/ z.formData.zoneAreaSqFt = Text
     \/ "weeklyTotalMinutes" \in z.stats.nan

\* Math.round((minutes / 60) * pr * area * 0.623); 0 stands in for NaN
calculateZoneGallons(z) ==
  IF z.formData.zoneAreaSqFt = Empty \/ gallonsIsNaN(z) THEN 0
  ELSE LET n == z.stats.weeklyTotalMinutes * z.stats.precipRate
                  * z.formData.zoneAreaSqFt.v * 623
       IN (n + 3000000) \div 6000000
          - (IF <<z.stats.weeklyTotalMinutes, z.stats.precipRate,
                  z.formData.zoneAreaSqFt.v>> \in GallonsTieBelow THEN 1 ELSE 0)

\* parseFloat(z.formData.waterPrice || '3.00')
pricePer1k(z) == IF z.formData.waterPrice.k = "num" THEN z.formData.waterPrice.v ELSE 300

costIsNaN(z) ==
  /\ z.formData.waterSource # "Secondary"
  /\ gallonsIsNaN(z) \/ z.formData.waterPrice = Text

\* zoneCost charging every water source
zoneCostEverySource(z) ==
  IF costIsNaN(z) THEN 0 ELSE calculateZoneGallons(z) * 43 * pricePer1k(z)

\* (gallons * 4.3 / 1000) * pricePer1k, and 0 for a Secondary source
zoneCost(z) ==
  IF z.formData.waterSource = "Secondary" \/ costIsNaN(z) THEN 0
  ELSE calculateZoneGallons(z) * 43 * pricePer1k(z)

\* One element of savedZoneRows; nan names the cells that are NaN
zoneRow(z) ==
  [name |-> z.name,
   gallons |-> calculateZoneGallons(z),
   cost |-> zoneCost(z),
   isSecondary |-> z.formData.waterSource = "Secondary",
   nan |-> (IF gallonsIsNaN(z) THEN {"gallons"} ELSE {})
             \cup (IF costIsNaN(z) THEN {"cost"} ELSE {})]

savedZoneRows(zones) == [i \in DOMAIN zones |-> zoneRow(zones[i])]

RECURSIVE SumGallons(_, _)
SumGallons(rows, n) ==
  IF n = 0 THEN 0 ELSE SumGallons(rows, n - 1) + rows[n].gallons

RECURSIVE SumCost(_, _)
SumCost(rows, n) ==
  IF n = 0 THEN 0 ELSE SumCost(rows, n - 1) + rows[n].cost

\* totalGallons += gallons over the rows; NaN as soon as one row is
totalGallons(zones) == SumGallons(savedZoneRows(zones), Len(zones))
totalGallonsIsNaN(zones) ==
  \E i \in DOMAIN zones : "gallons" \in zoneRow(zones[i]).nan

\* totalMonthlyCost += cost over the rows
totalMonthlyCost(zones) == SumCost(savedZoneRows(zones), Len(zones))
totalMonthlyCostIsNaN(zones) ==
  \E i \in DOMAIN zones : "cost" \in zoneRow(zones[i]).nan

-----------------------------------------------------------------------------
(* Numeric inputs holding an absent value, a text that does not parse, or a *)
(* number: the effect computes the result and the zone is saved for the     *)
(* report.                                                                  *)

ParseForms ==
  { [Form("Fixed Spray (Generic)", t[1], t[2], t[3], "0-15%", t[4], "", t[5], t[6], t[7])
       EXCEPT !.zoneAreaSqFt = t[8], !.waterPrice = t[9], !.waterSource = t[10]] :
      t \in {Empty, Text, Num(20)}
         \X {Empty, Text, Num(50)}
         \X {"Sand", "Clay"}
         \X {"Cool Season Turf Grass", "Trees"}
         \X {Empty, Text, Num(300)}
         \X {Empty, Text, Num(50)}
         \X {Empty, Text, Num(75)}
         \X {Empty, Text, Num(100)}
         \X {Empty, Text, Num(450)}
         \X {"Culinary", "Secondary"} }

ParseOverrides == {Null, Num(2)}

InitParse ==
  /\ formData \in ParseForms
  /\ manualCycles \in ParseOverrides
  /\ liveCalc = Null
  /\ savedZones = <<>>
  /\ editingId = Null
  /\ loading = FALSE
  /\ planRequest = Null
  /\ weatherLoading = FALSE
  /\ result = Null
  /\ error = Null
  /\ now = 0
  /\ lastOp = Op("mount", "", manualCycles # Null)

NextParse == Recalculate \/ HandleSaveAndNext

SpecParse == InitParse /\ [][NextParse]_vars

-----------------------------------------------------------------------------
(* Keys that are not in the reference tables: formData holds strings, and   *)
(* the effect indexes the tables with them.                                 *)

LookupForms ==
  { Form(t[1], t[2], t[3], t[4], t[5], t[6], t[7], Empty, Empty, Empty) :
      t \in {"Fixed Spray (Generic)", "Unknown Nozzle"}
         \X {Empty, Num(20)}
         \X {Empty, Num(50)}
         \X {"Clay", "Sand", "Gravel", "Beach Sand"}
         \X {"0-15%", ">45%", "Terraced"}
         \X {"Cool Season Turf Grass", "Orchard", "Artificial Turf"}
         \X {"", "Direct Sun", "Dappled"} }

LookupOverrides == {Null, Num(2)}

InitLookup ==
  /\ formData \in LookupForms
  /\ manualCycles \in LookupOverrides
  /\ liveCalc = Null
  /\ savedZones = <<>>
  /\ editingId = Null
  /\ loading = FALSE
  /\ planRequest = Null
  /\ weatherLoading = FALSE
  /\ result = Null
  /\ error = Null
  /\ now = 0
  /\ lastOp = Op("mount", "", manualCycles # Null)

NextLookup == Recalculate

SpecLookup == InitLookup /\ [][NextLookup]_vars

-----------------------------------------------------------------------------
(* The report over two saved zones: a zone is selected in the list, its     *)
(* water source or area is edited, and it is saved again.                   *)

\* The forms two zones were saved with: a nozzle selection fills in the
\* nozzle's efficiency (handleChange)
ReportForms ==
  { [Form(t[1], Empty, Num(NOZZLE_DATA[t[1]].efficiency), "Clay", "0-15%",
          "Cool Season Turf Grass", "", Empty, Empty, Empty)
       EXCEPT !.zoneAreaSqFt = t[2], !.waterPrice = t[3], !.waterSource = t[4]] :
      t \in {"Fixed Spray (Generic)", "Hunter MP Rotator (Standard)"}
         \X {Empty, Num(100), Num(250)}
         \X {Empty, Num(450)}
         \X {"Culinary", "Secondary"} }

\* A zone as handleSaveAndNext appends it at clock reading t
SavedZone(f, t, n) ==
  [id |-> ToString(t), name |-> "Zone " \o ToString(n), stats |-> Calc(f, Null),
   formData |-> f, timestamp |-> t]

\* The state after the second zone was saved
InitReport ==
  /\ \E f1 \in ReportForms, f2 \in ReportForms :
       /\ savedZones = <<SavedZone(f1, 0, 1), SavedZone(f2, 1, 2)>>
       /\ formData = ResetZoneFields(f2)
  /\ manualCycles = Null
  /\ liveCalc = Null
  /\ editingId = Null
  /\ loading = FALSE
  /\ planRequest = Null
  /\ weatherLoading = FALSE
  /\ result = Null
  /\ error = Null
  /\ now = 1
  /\ lastOp = Op("handleSaveAndNext", "append", FALSE)

ReportEdits ==
  ({"waterSource"} \X {"Culinary", "Secondary"})
    \cup ({"zoneAreaSqFt"} \X {Num(250)})

NextReport ==
  \/ HandleEditZone
  \/ HandleChange(ReportEdits)
  \/ HandleSaveAndNext

SpecReport == InitReport /\ [][NextReport]_vars

-----------------------------------------------------------------------------
(* The pressure adjustment as a function of the nozzle and the pressure     *)

\* Pressures 0..MaxPsi cover every optimalPsi (30, 40, 45) from below
MaxPsi == 50

\* and the others lie below 0 and around the upper clamp, 2.25 * optimalPsi
PressureInputs == {-5} \cup 0..MaxPsi \cup {67, 68, 90, 101, 102, 120}

PressureForms ==
  { Form(t[1], t[2], Empty, "Loam", "0-15%", "Trees", "", Empty, Empty, Empty) :
      t \in Nozzles \X ({Empty} \cup {Num(x) : x \in PressureInputs}) }

InitPressure ==
  /\ formData \in PressureForms
  /\ manualCycles = Null
  /\ liveCalc = Null
  /\ savedZones = <<>>
  /\ editingId = Null
  /\ loading = FALSE
  /\ planRequest = Null
  /\ weatherLoading = FALSE
  /\ result = Null
  /\ error = Null
  /\ now = 0
  /\ lastOp = Op("mount", "", FALSE)

NextPressure == Recalculate

SpecPressure == InitPressure /\ [][NextPressure]_vars

-----------------------------------------------------------------------------
(* The App with its two remote calls, the weather estimate and the plan,    *)
(* from the states in which a call can be made: a form with or without a    *)
(* zone type, ZIP code and month, with or without an override, a saved zone *)
(* and a zone being edited.                                                 *)

RemoteForms ==
  { [Form("Fixed Spray (Generic)", Empty, Num(70), "Clay", "0-15%", t[1], "",
          Empty, Empty, Empty)
       EXCEPT !.zipCode = t[2], !.month = t[3]] :
      t \in {"", "Cool Season Turf Grass"} \X {"", "84101"} \X {"", "July"} }

RemoteOverrides == {Null, Num(2)}

\* The zone list: empty, or a zone saved at clock reading 0
RemoteZones ==
  { <<>>,
    << SavedZone([Form("Hunter MP Rotator (Standard)", Empty, Num(80), "Clay", "0-15%",
                       "Cool Season Turf Grass", "", Empty, Empty, Empty)
                    EXCEPT !.zipCode = "84101", !.month = "July"], 0, 1) >> }

InitRemote ==
  /\ formData \in RemoteForms
  /\ manualCycles \in RemoteOverrides
  /\ liveCalc = Calc(formData, manualCycles)
  /\ savedZones \in RemoteZones
  /\ editingId \in {Null} \cup {Id(savedZones[i].id) : i \in DOMAIN savedZones}
  /\ loading = FALSE
  /\ planRequest = Null
  /\ weatherLoading = FALSE
  /\ result = Null
  /\ error = Null
  /\ now = Len(savedZones)
  /\ lastOp = Op("mount", "", manualCycles # Null)

RemoteEdits == {"estWeeklyEt"} \X {Num(300)}

NextRemote ==
  \/ HandleChange(RemoteEdits)
  \/ HandleFileChange
  \/ HandleFetchWeather
  \/ WeatherResolved(WeatherEstimates)
  \/ WeatherRejected
  \/ HandleSubmit
  \/ SubmitResolved
  \/ SubmitRejected
  \/ HandleSaveAndNext
  \/ HandleEditZone

SpecRemote == InitRemote /\ [][NextRemote]_vars

-----------------------------------------------------------------------------
(* The list of saved zones from construction: commits, updates, and what    *)
(* happens around them                                                      *)

MaxListedZones == 2

ZoneEdits ==
  { <<"nozzleType", "Fixed Spray (Generic)">>, <<"soilType", "Clay">>,
    <<"slope", "0-15%">>, <<"zoneType", "Cool Season Turf Grass">>,
    <<"zoneType", "Trees">> }

NextZones ==
  \/ HandleChange(ZoneEdits)
  \/ HandleCycleChange
  \/ SaveAndNext(MaxListedZones)
  \/ HandleEditZone
  \/ Tick

SpecZones == Init /\ [][NextZones]_vars

-----------------------------------------------------------------------------
(* A committed zone, and everything that can happen to the form after it:   *)
(* edits, the cycle buttons, the weather fetch, Edit Zone and Update        *)

CommittedForms ==
  { [Form(n, Empty, Num(NOZZLE_DATA[n].efficiency), "Clay", "0-15%",
          "Cool Season Turf Grass", "", Empty, Empty, Empty)
       EXCEPT !.zipCode = "84101", !.month = "July"] :
      n \in {"Fixed Spray (Generic)", "Hunter MP Rotator (Standard)"} }

\* The state after the zone was committed and the clock has advanced, with or
\* without an override left from it
InitCommitted ==
  /\ \E f \in CommittedForms :
       /\ savedZones = <<SavedZone(f, 0, 1)>>
       /\ formData = ResetZoneFields(f)
  /\ manualCycles \in {Null, Num(2)}
  /\ liveCalc = Null
  /\ editingId = Null
  /\ loading = FALSE
  /\ planRequest = Null
  /\ weatherLoading = FALSE
  /\ result = Null
  /\ error = Null
  /\ now = 1
  /\ lastOp = Op("handleSaveAndNext", "append", manualCycles # Null)

CommittedEdits == { <<"estWeeklyEt", Num(300)>> }

NextCommitted ==
  \/ HandleChange(CommittedEdits)
  \/ HandleCycleChange
  \/ HandleFetchWeather
  \/ WeatherResolved(WeatherEstimates)
  \/ WeatherRejected
  \/ HandleEditZone
  \/ HandleSaveAndNext

SpecCommitted == InitCommitted /\ [][NextCommitted]_vars

-----------------------------------------------------------------------------
(* Properties of the calculation (SpecCalc) *)

\* C1: every LiveCalculation has suggestedFrequency an integer in 1..7, for any
\* optional fields and any override.
C1_FrequencyInRange ==
  liveCalc # Null => liveCalc.suggestedFrequency \in 1..7

\* C1 witness: a result at the upper end, 7 days a week, on sandy soil
C1_Witness ==
  /\ liveCalc # Null
  /\ isSandy(formData)
  /\ liveCalc.suggestedFrequency = 7

\* C2: every LiveCalculation has cyclesPerDay >= 1, with or without an override,
\* also when the net weekly need is 0 or the effective rate is <= 0.
C2_CyclesAtLeastOne ==
  liveCalc # Null => liveCalc.cyclesPerDay >= 1

\* C3: every LiveCalculation has cyclesPerDay <= 10, with or without an override.
C3_CyclesAtMostTen ==
  liveCalc # Null => liveCalc.cyclesPerDay <= 10

\* C7: a turf zone mown at 2.0" or higher has suggestedFrequency <= 4, for every
\* soil and every net weekly need.
C7_TallTurfCap ==
  (liveCalc # Null /\ isTurf(formData) /\ mowingHeightOf(formData) >= 200)
    => liveCalc.suggestedFrequency <= 4

\* C7 witness: sandy soil and a high need (base frequency 5), turf mown at exactly
\* 2.0", capped to 4
C7_Witness ==
  /\ liveCalc # Null
  /\ isTurf(formData)
  /\ formData.mowingHeight = Num(200)
  /\ baseFrequency(formData) = 5
  /\ liveCalc.suggestedFrequency = 4

\* C8: a turf zone mown at 0.75" or lower has suggestedFrequency = 7, for every
\* soil and every net weekly need.
C8_ShortTurfDaily ==
  (liveCalc # Null /\ isTurf(formData) /\ mowingHeightOf(formData) <= 75)
    => liveCalc.suggestedFrequency = 7

\* C8 witness: turf mown at exactly 0.75" on a soil and need whose base frequency
\* is 2
C8_Witness ==
  /\ liveCalc # Null
  /\ isTurf(formData)
  /\ formData.mowingHeight = Num(75)
  /\ baseFrequency(formData) = 2
  /\ liveCalc.suggestedFrequency = 7

\* C9: with no override, a sandy soil has cyclesPerDay >= 2 for every daily
\* runtime, a daily runtime of 0 included.
C9_SandyTwoCycles ==
  (liveCalc # Null /\ manualCycles = Null /\ formData.soilType \in {"Sand", "Loamy Sand", "Sandy Loam"})
    => liveCalc.cyclesPerDay >= 2

\* C9 witness: sandy soil, no override, nothing to apply, two cycles all the same
C9_Witness ==
  /\ liveCalc # Null
  /\ manualCycles = Null
  /\ formData.soilType = "Sand"
  /\ liveCalc.dailyRunTime = 0
  /\ liveCalc.cyclesPerDay = 2

\* C10: maxRunTime = 60 whenever precipRate <= the soil's infiltration rate;
\* otherwise maxRunTime = max(3, floor(60 * (infiltration / precipRate) *
\* slopeFactor)), the floor being taken of the double the program computes: the
\* floor of the exact value, or, where the exact value is a whole number n, n or
\* n - 1.  Fixed Spray (Generic) at 30 PSI on Loam at 0-15% gives precipRate 1.5
\* and maxRunTime 20.
C10_MaxRunTime ==
  liveCalc # Null =>
    LET infiltration == SOIL_RATES[formData.soilType]
        num == 60 * infiltration * SLOPE_FACTORS[formData.slope]
        den == liveCalc.precipRate * 100
    IN /\ liveCalc.precipRate <= infiltration => liveCalc.maxRunTime = 60
       /\ liveCalc.precipRate > infiltration =>
            /\ num % den # 0 => liveCalc.maxRunTime = Max(3, num \div den)
            /\ num % den = 0 =>
                 liveCalc.maxRunTime \in {Max(3, num \div den), Max(3, num \div den - 1)}
       /\ ( /\ formData.nozzleType = "Fixed Spray (Generic)"
            /\ formData.pressure = Num(30)
            /\ formData.soilType = "Loam"
            /\ formData.slope = "0-15%" )
            => (liveCalc.precipRate = 150 /\ liveCalc.maxRunTime = 20)

\* C10 witness: the scenario of the claim, with maxRunTime 20
C10_WitnessScenario ==
  /\ liveCalc # Null
  /\ formData.nozzleType = "Fixed Spray (Generic)"
  /\ formData.pressure = Num(30)
  /\ formData.soilType = "Loam"
  /\ formData.slope = "0-15%"
  /\ liveCalc.maxRunTime = 20

-----------------------------------------------------------------------------
(* Properties of the handlers *)

\* C4: a handleChange of nozzleType, soilType or slope leaves no override, and a
\* LiveCalculation published with no override carries the automatic count of the
\* form it was computed from (SpecForm).
C4_ChangeClearsOverride ==
  /\ (lastOp.op = "handleChange" /\ lastOp.field \in {"nozzleType", "soilType", "slope"})
       => manualCycles = Null
  /\ (manualCycles = Null /\ liveCalc # Null)
       => liveCalc.cyclesPerDay =
            autoCycles(formData, liveCalc.dailyRunTime, liveCalc.maxRunTime)

\* C4 witness: the soil was changed while an override was set, and a result with
\* the automatic count is on display
C4_Witness ==
  /\ lastOp = Op("handleChange", "soilType", TRUE)
  /\ manualCycles = Null
  /\ liveCalc # Null
  /\ liveCalc.cyclesPerDay =
       autoCycles(formData, liveCalc.dailyRunTime, liveCalc.maxRunTime)

\* C5: every step of the program that changes nozzleType, soilType or slope of
\* the form, by whatever handler (handleChange, Save & Add Next Zone, Edit Zone),
\* leaves no override (Spec).
C5_AnyChangeClearsOverride ==
  [][ ( \/ formData'.nozzleType # formData.nozzleType
        \/ formData'.soilType # formData.soilType
        \/ formData'.slope # formData.slope )
      => manualCycles' = Null ]_vars

\* C6: a step that changes the form in pressure, efficiency, sunlight,
\* estWeeklyEt, estWeeklyRain or mowingHeight only (an edit, or a weather fetch
\* that resolved) leaves the override as it was, and with an override n the
\* result published after it has cyclesPerDay = n (SpecWeather).
C6_OtherFieldsKeepOverride ==
  [][ ( /\ formData' # formData
        /\ \A key \in DOMAIN formData \ {"pressure", "efficiency", "sunlight",
                                          "estWeeklyEt", "estWeeklyRain", "mowingHeight"} :
             formData'[key] = formData[key] )
      => /\ manualCycles' = manualCycles
         /\ (manualCycles # Null /\ liveCalc' # Null)
              => liveCalc'.cyclesPerDay = manualCycles.v ]_vars

\* C6 witness: a weather fetch resolved while an override was set, and the result
\* on display carries the override, not the automatic count
C6_Witness ==
  /\ lastOp = Op("weatherResolved", "", TRUE)
  /\ manualCycles # Null
  /\ liveCalc # Null
  /\ liveCalc.cyclesPerDay = manualCycles.v
  /\ liveCalc.cyclesPerDay #
       autoCycles(formData, liveCalc.dailyRunTime, liveCalc.maxRunTime)

\* C11: a LiveCalculation is on display if and only if nozzleType, soilType,
\* slope and zoneType are all non-empty; after a field edit or the reset of Save
\* & Add Next Zone that empties one of them there is no result (Spec).
C11_ResultIffRequiredFields ==
  (liveCalc # Null) <=>
    ( /\ formData.nozzleType # "" /\ formData.soilType # ""
      /\ formData.slope # "" /\ formData.zoneType # "" )

\* C11 witness: Save & Add Next Zone ran on a result and emptied nozzleType and
\* zoneType while soilType and slope stay filled in; no result is on display
C11_Witness ==
  /\ lastOp.op = "handleSaveAndNext"
  /\ formData.soilType # "" /\ formData.slope # ""
  /\ formData.nozzleType = "" /\ formData.zoneType = ""
  /\ Len(savedZones) = 1 /\ savedZones[1].stats # Null
  /\ liveCalc = Null

-----------------------------------------------------------------------------
(* Numeric inputs that do not parse *)

\* The inputs read with parseFloat or Number
NumericInputs ==
  {"pressure", "efficiency", "estWeeklyEt", "estWeeklyRain", "mowingHeight",
   "zoneAreaSqFt", "waterPrice"}

\* The form with every numeric input that does not parse left empty
Absent(f) ==
  [name \in DOMAIN f |->
     IF name \in NumericInputs /\ f[name] = Text THEN Empty ELSE f[name]]

\* The saved zone as it would be had those inputs been left empty
AbsentZone(z) ==
  [z EXCEPT !.formData = Absent(z.formData),
            !.stats = Calc(Absent(z.formData), manualCycles)]

\* C12: a text that does not parse in pressure, efficiency, estWeeklyEt,
\* estWeeklyRain, mowingHeight, zoneAreaSqFt or waterPrice gives the outputs of
\* the absent input, and no output of the calculator or the report is NaN
C12_TextAsAbsent ==
  /\ liveCalc # Null =>
       /\ liveCalc = Calc(Absent(formData), manualCycles)
       /\ liveCalc.nan = {}
  /\ \A i \in DOMAIN savedZones :
       /\ zoneRow(savedZones[i]) = zoneRow(AbsentZone(savedZones[i]))
       /\ zoneRow(savedZones[i]).nan = {}
  /\ ~totalGallonsIsNaN(savedZones)
  /\ ~totalMonthlyCostIsNaN(savedZones)

-----------------------------------------------------------------------------
(* Keys that are not in the reference tables *)

\* C13: with the four required fields present, the effect raises no error and
\* publishes a result whatever the keys are; for a nozzle that is not in
\* NOZZLE_DATA and no numeric efficiency input the efficiency applied is 0.75
C13_UnknownKeyFallbacks ==
  lastOp.op = "effect" =>
    /\ liveCalc # TypeError
    /\ liveCalc # Null
    /\ (formData.nozzleType \notin DOMAIN NOZZLE_DATA /\ formData.efficiency = Empty)
         => liveCalc.efficiency = 75

-----------------------------------------------------------------------------
(* The cycles control *)

\* C14: handleCycleChange(delta), delta +1 or -1, runs on a live result only and
\* sets the override to clamp(current + delta, 1, 10), current being the
\* override if one is set and the cyclesPerDay on display otherwise; the override
\* is in [1, 10], and the count on display afterwards differs from the one before
\* by at most 1, in the direction of delta (SpecForm)
C14_CycleChangeByOne ==
  [][ lastOp'.op = "handleCycleChange" =>
        LET delta == IF lastOp'.field = "+1" THEN 1 ELSE -1
            current == IF manualCycles # Null THEN manualCycles.v
                       ELSE liveCalc.cyclesPerDay
        IN /\ liveCalc # Null
           /\ manualCycles' = Num(Max(1, Min(10, current + delta)))
           /\ manualCycles'.v \in 1..10
           /\ liveCalc'.cyclesPerDay - liveCalc.cyclesPerDay
                \in (IF delta = 1 THEN {0, 1} ELSE {-1, 0}) ]_vars

\* C15: with an override n the result has cyclesPerDay = n (neither the
\* automatic count nor the sandy minimum of 2), minutesPerCycle =
\* ceil(dailyRunTime / n) and the soak time decided from n; precipRate,
\* weeklyTotalMinutes, suggestedFrequency, dailyRunTime, maxRunTime and
\* inchesAppliedPerDay are those of the result without an override (SpecCalc)
C15_OverrideOnlyCycles ==
  (lastOp.op = "effect" /\ manualCycles # Null /\ liveCalc # Null) =>
    LET n == manualCycles.v
        auto == Calc(formData, Null)
    IN /\ liveCalc.cyclesPerDay = n
       /\ liveCalc.minutesPerCycle = CeilDiv(liveCalc.dailyRunTime, n)
       /\ liveCalc.recommendedSoakTime =
            (IF n > 1 THEN SOIL_SOAK_TIMES[formData.soilType] ELSE 0)
       /\ \A name \in {"precipRate", "weeklyTotalMinutes", "suggestedFrequency",
                       "dailyRunTime", "maxRunTime", "inchesAppliedPerDay"} :
            liveCalc[name] = auto[name]

\* C15 witness: an override of 1 on a sandy soil, where the automatic count is 2
C15_Witness ==
  /\ lastOp.op = "effect"
  /\ manualCycles = Num(1)
  /\ isSandy(formData)
  /\ liveCalc # Null
  /\ liveCalc.cyclesPerDay = 1
  /\ liveCalc.minutesPerCycle = liveCalc.dailyRunTime
  /\ Calc(formData, Null).cyclesPerDay = 2

-----------------------------------------------------------------------------
(* The report *)

\* The cost of the zones 1..n with a metered source, in millionths of a dollar:
\* (gallons * 4.3 / 1000) * price
RECURSIVE MeteredCost(_, _)
MeteredCost(zones, n) ==
  IF n = 0 THEN 0
  ELSE MeteredCost(zones, n - 1)
       + (IF zones[n].formData.waterSource = "Secondary" THEN 0
          ELSE zoneRow(zones[n]).gallons * 43 * pricePer1k(zones[n]))

RECURSIVE AllGallons(_, _)
AllGallons(zones, n) ==
  IF n = 0 THEN 0 ELSE AllGallons(zones, n - 1) + zoneRow(zones[n]).gallons

\* g = round(n / 6000000), halves rounded up
IsRounded(g, n) == 6000000 * g <= n + 3000000 /\ n + 3000000 < 6000000 * (g + 1)

\* C16: in the report a zone on a Secondary source costs 0 whatever its area
\* and price, and its gallons are round((weeklyTotalMinutes / 60) * precipRate
\* * area * 0.623) like those of every zone with an area; the fleet gallons are
\* the sum over all zones and the fleet monthly cost is the sum of
\* (gallons * 4.3 / 1000) * price over the zones that are not Secondary
C16_SecondaryCostsNothing ==
  /\ \A i \in DOMAIN savedZones :
       LET z == savedZones[i]
           row == zoneRow(z)
       IN /\ z.formData.waterSource = "Secondary" => row.cost = 0
          /\ z.formData.zoneAreaSqFt # Empty =>
               IsRounded(row.gallons,
                         z.stats.weeklyTotalMinutes * z.stats.precipRate
                           * z.formData.zoneAreaSqFt.v * 623)
  /\ totalGallons(savedZones) = AllGallons(savedZones, Len(savedZones))
  /\ totalMonthlyCost(savedZones) = MeteredCost(savedZones, Len(savedZones))

\* C16 witness: a zone with an area and a price was edited to a Secondary source
\* and saved again: it uses water and costs nothing, the other zone is metered,
\* and the fleet cost is the metered zone's
C16_Witness ==
  /\ lastOp.op = "handleSaveAndNext"
  /\ Len(savedZones) = 2
  /\ savedZones[1].timestamp = 1
  /\ savedZones[1].formData.waterSource = "Secondary"
  /\ savedZones[1].formData.waterPrice = Num(450)
  /\ zoneRow(savedZones[1]).gallons > 0
  /\ zoneRow(savedZones[1]).cost = 0
  /\ savedZones[2].formData.waterSource = "Culinary"
  /\ zoneRow(savedZones[2]).cost > 0
  /\ totalMonthlyCost(savedZones) = zoneRow(savedZones[2]).cost
  /\ totalGallons(savedZones) > zoneRow(savedZones[2]).gallons

-----------------------------------------------------------------------------
(* The net weekly water need *)

\* C17: with estWeeklyEt absent or zero the effect uses baseEt = 1.25 and
\* publishes isEstData = true, with a non-zero estWeeklyEt it uses that value
\* and publishes isEstData = false; netWeeklyInches is max(0, baseEt *
\* plantFactor * sunFactor - rain), which is 1.1875 for Cool Season Turf Grass
\* in Direct Sun with ET and rain absent (SpecCalc; millionths of an inch)
C17_NetWeeklyNeed ==
  (lastOp.op = "effect" /\ liveCalc # Null) =>
    LET et == formData.estWeeklyEt
        rain == IF formData.estWeeklyRain = Empty THEN 0 ELSE formData.estWeeklyRain.v
        zone == ZONE_FACTORS[formData.zoneType]
        sun == IF formData.sunlight = "" THEN 100 ELSE SUNLIGHT_FACTORS[formData.sunlight]
    IN /\ et \in {Empty, Num(0)} => baseEt(formData) = 125 /\ liveCalc.isEstData
       /\ et \notin {Empty, Num(0)} => baseEt(formData) = et.v /\ ~liveCalc.isEstData
       /\ netWeeklyInches(formData)
            = Max(0, baseEt(formData) * zone * sun - rain * 10000)
       /\ ( /\ et = Empty /\ formData.estWeeklyRain = Empty
            /\ formData.zoneType = "Cool Season Turf Grass"
            /\ formData.sunlight = "Direct Sun" )
          => netWeeklyInches(formData) = 1187500 /\ liveCalc.isEstData

\* C17 witness: the scenario of the claim after the effect ran, on Fixed Spray
\* (Generic) at 70 %: 1.1875 in at 1.05 in/hr is 68 minutes a week
C17_Witness ==
  /\ lastOp.op = "effect"
  /\ formData.estWeeklyEt = Empty /\ formData.estWeeklyRain = Empty
  /\ formData.zoneType = "Cool Season Turf Grass"
  /\ formData.sunlight = "Direct Sun"
  /\ liveCalc # Null
  /\ liveCalc.isEstData
  /\ netWeeklyInches(formData) = 1187500
  /\ liveCalc.weeklyTotalMinutes = 68

-----------------------------------------------------------------------------
(* The efficiency applied *)

\* C18: the efficiency of every result on display is a fraction between 0 and 1
\* (0 to 100 in percent), whatever the efficiency input holds, a percentage
\* above 100 or below 0 included, and for every nozzle default (SpecForm)
C18_EfficiencyFraction ==
  liveCalc # Null => (0 <= liveCalc.efficiency /\ liveCalc.efficiency <= 100)

-----------------------------------------------------------------------------
(* The pressure adjustment *)

\* precipRate of the form with the pressure p
RateAt(f, p) == precipRateOf([f EXCEPT !.pressure = Num(p)])

\* The parts of C19 that do not compare two pressures: precipRate is the base
\* rate when the pressure is absent or <= 0; otherwise it is within half a
\* hundredth of [0.5 * rate, 1.5 * rate], and within half a hundredth of
\* 1.5 * rate when sqrt(p / optimalPsi) >= 1.5
PressureRange ==
  LET nozzle == NOZZLE_DATA[formData.nozzleType]
      p == formData.pressure
      pr == liveCalc.precipRate
  IN IF p = Empty \/ p.v <= 0
       THEN pr = nozzle.rate
       ELSE /\ nozzle.rate - 1 <= 2 * pr /\ 2 * pr <= 3 * nozzle.rate + 1
            /\ 4 * p.v >= 9 * nozzle.optimalPsi =>
                 (3 * nozzle.rate - 1 <= 2 * pr /\ 2 * pr <= 3 * nozzle.rate + 1)

\* C19 as stated: for positive pressures p1 < p2 <= optimalPsi the precipRate
\* at p2 is greater than the precipRate at p1; far above optimalPsi precipRate
\* is round(1.5 * rate, 2); it lies in [0.5 * rate, 1.5 * rate] up to rounding
\* and is the base rate when the pressure is absent or <= 0
C19_StrictlyIncreasing ==
  lastOp.op = "effect" =>
    /\ PressureRange
    /\ \A p2 \in 1..NOZZLE_DATA[formData.nozzleType].optimalPsi :
         (formData.pressure # Empty /\ 0 < formData.pressure.v
            /\ formData.pressure.v < p2)
           => RateAt(formData, p2) > liveCalc.precipRate

\* C19 amended: for positive pressures p1 < p2 <= optimalPsi the precipRate at
\* p2 is not below the precipRate at p1, and the precipRate at optimalPsi, the
\* base rate, is above that of every pressure at or below a quarter of
\* optimalPsi; the other parts as stated (SpecPressure)
C19_NonDecreasing ==
  lastOp.op = "effect" =>
    /\ PressureRange
    /\ \A p2 \in 1..NOZZLE_DATA[formData.nozzleType].optimalPsi :
         (formData.pressure # Empty /\ 0 < formData.pressure.v
            /\ formData.pressure.v < p2)
           => RateAt(formData, p2) >= liveCalc.precipRate
    /\ (formData.pressure # Empty /\ 0 < formData.pressure.v
          /\ 4 * formData.pressure.v <= NOZZLE_DATA[formData.nozzleType].optimalPsi)
         => liveCalc.precipRate < NOZZLE_DATA[formData.nozzleType].rate

\* C19 witness: Fixed Spray (Generic) at 20 PSI, below its 30 PSI: 1.22 in/hr,
\* between the rate at 7 PSI (the lower clamp, 0.75) and the base rate 1.50
C19_Witness ==
  /\ lastOp.op = "effect"
  /\ formData.nozzleType = "Fixed Spray (Generic)"
  /\ formData.pressure = Num(20)
  /\ liveCalc.precipRate = 122
  /\ RateAt(formData, 7) = 75
  /\ RateAt(formData, 30) = 150

-----------------------------------------------------------------------------
(* Failing remote calls *)

\* C20: when the weather estimate or the plan generation fails, a message is
\* set and the call's loading flag is false again; neither the start of the
\* call nor its failure changes the form, the saved zones, the zone being
\* edited or the override, and the result on display stays the calculation of
\* the form as entered (SpecRemote)
C20_FailureKeepsState ==
  [][ /\ lastOp'.op \in {"handleFetchWeather", "weatherRejected",
                         "handleSubmit", "submitRejected"}
        => /\ formData' = formData
           /\ savedZones' = savedZones
           /\ editingId' = editingId
           /\ manualCycles' = manualCycles
           /\ liveCalc' = Calc(formData', manualCycles')
      /\ lastOp'.op = "weatherRejected" => (error' # Null /\ ~weatherLoading')
      /\ lastOp'.op = "submitRejected" => (error' # Null /\ ~loading') ]_vars

\* C20 witness: the plan generation failed while a saved zone was being edited
\* with an override of 2 and an ET of 3.00 entered by hand; the result of the
\* form is on display with the override
C20_Witness ==
  /\ lastOp = Op("submitRejected", "", TRUE)
  /\ error = [k |-> "error", v |-> "Failed to generate plan."]
  /\ ~loading
  /\ Len(savedZones) = 1
  /\ editingId = Id(savedZones[1].id)
  /\ manualCycles = Num(2)
  /\ formData.estWeeklyEt = Num(300)
  /\ liveCalc # Null
  /\ liveCalc.cyclesPerDay = 2
  /\ ~liveCalc.isEstData

-----------------------------------------------------------------------------
(* The result on display and its inputs *)

\* C21: after every handler and its effect, the result on display is the
\* calculation of the current form and the current override, every field from
\* the same inputs: a handler that leaves them as they are leaves the result
\* as it is, and the effect run again on them gives the same result (Spec)
C21_ResultIsCalcOfInputs == liveCalc = Calc(formData, manualCycles)

\* C21 witness: the zone type was selected again while an override was set, and
\* the result on display is that of the new form with the override
C21_Witness ==
  /\ lastOp = Op("handleChange", "zoneType", TRUE)
  /\ manualCycles # Null
  /\ liveCalc # Null
  /\ liveCalc.cyclesPerDay = manualCycles.v
  /\ liveCalc = Calc(formData, manualCycles)

-----------------------------------------------------------------------------
(* Properties of the saved-zone list (SpecZones) *)

\* C22: a Save & Add Next step with no zone being edited appends one entry,
\* made of the clock reading, the form and the live result, and keeps the
\* entries before it; with the identity e being edited it keeps the length and
\* the ids in their order, replaces stats, form data, name (the custom name if
\* there is one) and timestamp of each entry whose id is e, keeps every entry
\* of another id, and leaves no zone being edited. Every other step keeps the list.
C22_SaveAppendsOrReplaces ==
  [][ IF lastOp' # lastOp /\ lastOp'.op = "handleSaveAndNext"
        THEN IF editingId = Null
               THEN /\ Len(savedZones') = Len(savedZones) + 1
                    /\ SubSeq(savedZones', 1, Len(savedZones)) = savedZones
                    /\ LET z == savedZones'[Len(savedZones')]
                       IN /\ z.id = ToString(now) /\ z.timestamp = now
                          /\ z.stats = liveCalc /\ z.formData = formData
               ELSE /\ Len(savedZones') = Len(savedZones)
                    /\ editingId' = Null
                    /\ \A i \in DOMAIN savedZones :
                         IF savedZones[i].id = editingId.v
                           THEN /\ savedZones'[i].id = savedZones[i].id
                                /\ savedZones'[i].stats = liveCalc
                                /\ savedZones'[i].formData = formData
                                /\ savedZones'[i].timestamp = now
                                /\ savedZones'[i].name =
                                     IF formData.customZoneName # ""
                                       THEN formData.customZoneName ELSE savedZones[i].name
                           ELSE savedZones'[i] = savedZones[i]
        ELSE savedZones' = savedZones ]_vars

\* C22 witness: the second of two zones of different ids was updated at a later
\* clock reading with another result, the first one is as it was committed
C22_Witness ==
  /\ lastOp.op = "handleSaveAndNext" /\ lastOp.field = "update"
  /\ Len(savedZones) = 2 /\ editingId = Null
  /\ savedZones[1].id = "0" /\ savedZones[1].timestamp = 0
  /\ savedZones[2].id = "1" /\ savedZones[2].timestamp = 1
  /\ savedZones[2].stats # savedZones[1].stats

-----------------------------------------------------------------------------
(* Properties of a committed zone (SpecCommitted) *)

\* C23: the stats and the form data of a saved zone change in no step but a
\* Save & Add Next that updates the identity of that zone: not under a field
\* edit, a cycle button, a weather fetch or its answer, Edit Zone, or the
\* recomputation of the live result that follows them.
C23_CommittedZoneKept ==
  [][ \A i \in DOMAIN savedZones :
        \/ /\ savedZones'[i].stats = savedZones[i].stats
           /\ savedZones'[i].formData = savedZones[i].formData
        \/ /\ lastOp' # lastOp
           /\ lastOp'.op = "handleSaveAndNext" /\ lastOp'.field = "update"
           /\ editingId = Id(savedZones[i].id) ]_vars

\* C23 witness: the zone was loaded for edit, the override was changed and the
\* weather fetch has filled in its estimates; the live result differs from the
\* saved stats, and the zone is as it was committed at clock reading 0
C23_Witness ==
  /\ lastOp.op = "weatherResolved"
  /\ editingId = Id("0") /\ manualCycles = Num(3)
  /\ formData.estWeeklyEt = Num(200)
  /\ liveCalc # Null /\ liveCalc # savedZones[1].stats
  /\ savedZones[1].timestamp = 0
  /\ savedZones[1].formData.estWeeklyEt = Empty
  /\ savedZones[1].stats = Calc(savedZones[1].formData, Null)

-----------------------------------------------------------------------------
(* The frequency policy, the soak time and the cycle split (SpecCalc) *)

\* C24: suggestedFrequency is the reference policy.  base is, on a sandy soil,
\* 5 if the net weekly need is over 1.5 in, else 4 if it is over 0.8 in, else 3,
\* and on another soil 4 over 1.4 in, else 3 over 0.7 in, else 2, the need being
\* compared as the double the program computes.  On a turf zone a mowing height
\* (3.0 in when the field is empty) of at most 0.75 in gives 7, over 0.75 and
\* at most 1.5 in max(base, 5), over 1.5 and under 2.0 in max(base, 4), 2.0 in
\* or more min(base, 4).  On another zone it is base, whatever the mowing height.
C24_FrequencyPolicy ==
  liveCalc # Null =>
    LET sandy == formData.soilType \in {"Sand", "Loamy Sand", "Sandy Loam"}
        turf == formData.zoneType \in {"Cool Season Turf Grass", "Warm Season Turf Grass"}
        height == IF formData.mowingHeight = Empty THEN 300 ELSE formData.mowingHeight.v
        over(threshold) == netExceeds(formData, threshold)
        base == IF sandy
                  THEN (IF over(1500000) THEN 5 ELSE IF over(800000) THEN 4 ELSE 3)
                  ELSE (IF over(1400000) THEN 4 ELSE IF over(700000) THEN 3 ELSE 2)
    IN /\ (turf /\ height <= 75) => liveCalc.suggestedFrequency = 7
       /\ (turf /\ 75 < height /\ height <= 150)
            => liveCalc.suggestedFrequency = Max(base, 5)
       /\ (turf /\ 150 < height /\ height < 200)
            => liveCalc.suggestedFrequency = Max(base, 4)
       /\ (turf /\ height >= 200) => liveCalc.suggestedFrequency = Min(base, 4)
       /\ ~turf =>
            /\ liveCalc.suggestedFrequency = base
            /\ \A h \in {Empty, Num(50), Num(75), Num(150), Num(199), Num(200)} :
                 suggestedFrequencyOf([formData EXCEPT !.mowingHeight = h])
                   = liveCalc.suggestedFrequency

\* C24 witness: a turf zone mown at 1.99 in on a soil that is not sandy, with a
\* need between 0.7 and 0.8 in: base 3, raised to 4
C24_Witness ==
  /\ liveCalc # Null
  /\ formData.zoneType = "Cool Season Turf Grass"
  /\ formData.soilType = "Clay"
  /\ formData.mowingHeight = Num(199)
  /\ netWeeklyInches(formData) > 700000 /\ netWeeklyInches(formData) <= 800000
  /\ liveCalc.suggestedFrequency = 4

\* C25: with an active cycle count (the override if there is one, else the
\* automatic count) of at most 1, recommendedSoakTime is 0; with a count over 1
\* it is the soak time of the soil in SOIL_SOAK_TIMES, or 0 for a soil that is
\* not in the table.
C25_SoakTime ==
  (liveCalc # Null /\ liveCalc # TypeError /\ "cyclesPerDay" \notin liveCalc.nan) =>
    LET active == IF manualCycles # Null
                    THEN manualCycles.v
                    ELSE autoCycles(formData, liveCalc.dailyRunTime, liveCalc.maxRunTime)
        soak == IF formData.soilType \in DOMAIN SOIL_SOAK_TIMES
                  THEN SOIL_SOAK_TIMES[formData.soilType] ELSE 0
    IN /\ liveCalc.cyclesPerDay = active
       /\ active <= 1 => liveCalc.recommendedSoakTime = 0
       /\ active > 1 => liveCalc.recommendedSoakTime = soak

\* C25 witness: an override of 1 on Clay, whose automatic count is higher: one
\* cycle and no soak time, where the table has 60 minutes
C25_Witness ==
  /\ liveCalc # Null
  /\ formData.soilType = "Clay"
  /\ manualCycles = Num(1)
  /\ autoCycles(formData, liveCalc.dailyRunTime, liveCalc.maxRunTime) > 1
  /\ liveCalc.cyclesPerDay = 1
  /\ liveCalc.recommendedSoakTime = 0

\* C26: with no override, minutesPerCycle is at most maxRunTime in every
\* LiveCalculation, and the runoff warning is not shown; a state that shows the
\* warning has an override.
C26_AutoSplitWithinCeiling ==
  /\ (manualCycles = Null /\ liveCalc # Null)
       => liveCalc.minutesPerCycle <= liveCalc.maxRunTime
  /\ runoffWarning => manualCycles # Null

\* C26 witness: no override, a daily runtime over the ceiling split into cycles
\* that are as long as the ceiling allows
C26_Witness ==
  /\ manualCycles = Null /\ liveCalc # Null
  /\ liveCalc.dailyRunTime > liveCalc.maxRunTime
  /\ liveCalc.cyclesPerDay >= 2
  /\ liveCalc.minutesPerCycle = liveCalc.maxRunTime
  /\ ~runoffWarning

-----------------------------------------------------------------------------
(* Edit Zone followed at once by Update (Spec) *)

\* C27: when Edit Zone is followed at once by Save & Add Next, with no field
\* edit and no cycle button between them, the zone that was loaded keeps the
\* cyclesPerDay, minutesPerCycle and recommendedSoakTime it was saved with,
\* whatever override it was saved with and whatever override is left in the form.
C27_ReloadAndUpdateKeepsStats ==
  [][ ( /\ lastOp.op = "handleEditZone"
        /\ lastOp' # lastOp /\ lastOp'.op = "handleSaveAndNext" )
      => \A i \in DOMAIN savedZones :
           savedZones[i].id = editingId.v =>
             /\ savedZones'[i].stats.cyclesPerDay = savedZones[i].stats.cyclesPerDay
             /\ savedZones'[i].stats.minutesPerCycle = savedZones[i].stats.minutesPerCycle
             /\ savedZones'[i].stats.recommendedSoakTime
                  = savedZones[i].stats.recommendedSoakTime ]_vars

-----------------------------------------------------------------------------
(* The generated plan and the calls in flight (SpecRemote) *)

\* C28: a step that sets the plan completes a generation that was started after
\* the last clearing of the plan by Save & Add Next or Edit Zone: the answer of
\* a call that was in flight when the plan was cleared does not set it.
C28_StalePlanNotShown ==
  [][ (result = Null /\ result' # Null) => ~planRequest.overtaken ]_vars

-----------------------------------------------------------------------------
(* The schedule covers the need (SpecCalc) *)

\* C30: a LiveCalculation schedules at least the need it computed:
\* suggestedFrequency * dailyRunTime >= weeklyTotalMinutes, and with a count of
\* at least 1, cyclesPerDay * minutesPerCycle >= dailyRunTime; this holds for the
\* automatic count and for every override 1..10 of the same form, and
\* weeklyTotalMinutes, dailyRunTime and minutesPerCycle are never negative.
C30_ScheduleCoversNeed ==
  liveCalc # Null =>
    LET Covers(c) ==
          /\ c.suggestedFrequency * c.dailyRunTime >= c.weeklyTotalMinutes
          /\ c.cyclesPerDay >= 1 => c.cyclesPerDay * c.minutesPerCycle >= c.dailyRunTime
          /\ c.weeklyTotalMinutes >= 0 /\ c.dailyRunTime >= 0 /\ c.minutesPerCycle >= 0
    IN /\ Covers(liveCalc)
       /\ manualCycles = Null => \A n \in 1..10 : Covers(Calc(formData, Num(n)))

\* C30 witness: an override of 10 on a daily runtime that is not a multiple of
\* 10, of a weekly total that is not a multiple of the days: both roundings add
C30_Witness ==
  /\ liveCalc # Null
  /\ manualCycles = Num(10)
  /\ liveCalc.cyclesPerDay = 10
  /\ liveCalc.weeklyTotalMinutes > 0
  /\ liveCalc.suggestedFrequency * liveCalc.dailyRunTime > liveCalc.weeklyTotalMinutes
  /\ 10 * liveCalc.minutesPerCycle > liveCalc.dailyRunTime

-----------------------------------------------------------------------------
(* The identities of the saved zones (SpecZones) *)

\* C29: the saved zones have pairwise distinct ids, after any sequence of commits.
C29_DistinctIds ==
  \A i, j \in DOMAIN savedZones : i # j => savedZones[i].id # savedZones[j].id

====
